---- MODULE Spec2Model ----
(***************************************************************************)
(* Live stream session lifecycle of the traffic-camera map: the camera     *)
(* directory (cameraById), the inline preview of a marker popup, the       *)
(* prewarm pool, the fullscreen overlay with its double-buffered camera    *)
(* switch, the live-sync monitor of a preview, and the live check of a     *)
(* cell of the all-cameras grid.                                           *)
(*                                                                         *)
(* Environment: hls.js is supported by the browser (Hls.isSupported()).    *)
(* Every ensureHls() call made while window.Hls is absent has its own      *)
(* script element; each element finishes (onload) or fails (onerror) as a  *)
(* task of its own, in any order, and a failed element resolves its        *)
(* promise with null.  When window.Hls is present the continuation of       *)
(* ensureHls() runs right after the handler that registered it.  A stream  *)
(* address of the directory may or may not be an .m3u8 playlist.  The      *)
(* close button of the fullscreen overlay reloads the document.  Timers    *)
(* of the event loop fire in the order of their due times; the clock of    *)
(* the two monitors advances in ticks of 200ms and a timer callback runs   *)
(* at its due time or up to MaxLate ticks after it.  The popup monitor of  *)
(* main.js and the live check of an all-cameras cell belong to different   *)
(* documents and have a specification each.                                *)
(***************************************************************************)
EXTENDS Integers, Sequences, FiniteSets

VARIABLES
    hlsLoaded,                \* window.Hls is present
    pending,                  \* ensureHls() continuations waiting for a script onload
    known,                    \* ids that have a cameraById record
    cameraLayer,              \* ids whose current marker is in the cameraLayer group
    url,                      \* cameraById[id].videoUrl (0: none)
    gen,                      \* how many markers have been built for the id
    videoEl,                  \* the preview <video> of the id's marker (0: none)
    mediaInitialized,         \* closure flag of the marker popup
    hlsInstance,              \* closure variable of the marker popup (0: null)
    markerHls,                \* marker._hlsInstance (0: undefined)
    popup,                    \* id whose popup is open on the main map (0: none)
    sess,                     \* the Hls instances, one slot per ensureHls() call
    nSink,                    \* number of <video> elements created so far
    nativeSrc,                \* <video> elements whose src is the stream address itself
    syncListeners,            \* <video> elements that carry the play / pause listeners of initMedia
    fsOverlay,                \* "absent" or "flex" (style.display)
    navShown,                 \* prev / next buttons are displayed
    currentFsCameraId,        \* 0: null
    fsVideoEl,                \* 0: null
    fsHlsInstance,            \* 0: null
    fsVideoContainer,         \* <video> children of the fullscreen container
    prewarmPool,              \* id -> [has, video, hls]
    persistentPrewarmRunning,
    miniMarkersById,          \* ids that have a marker on the mini map
    handoffs,                 \* one record per switchFullscreenCamera swap
    unloaded,                 \* what the last page reload discarded
    layerOn,                  \* map.hasLayer(cameraLayer)
    showCameras,              \* the 'Show cameras' checkbox is ticked
    loads,                    \* number of directory snapshots supplied
    opens,                    \* number of openCameraFullscreen calls
    pops,                     \* number of marker clicks of the user
    \* ---- live-sync monitor of one marker popup (startLiveSync / stopLiveSync)
    now,                      \* Date.now(), in ticks of 200ms
    popupShown,               \* the popup of the marker is open
    liveFs,                   \* the fullscreen overlay covers the map
    clicks,                   \* clicks on the play button so far
    listeners,                \* play / pause listener pairs registered by initMedia
    paused,                   \* videoEl.paused
    events,                   \* 'play' / 'pause' events queued on the preview element, oldest first
    netEmpty,                 \* videoEl.networkState is NETWORK_EMPTY: the element never had a src
    liveSyncInterval,         \* -1: null, else the due time of the next poll
    syncHls,                  \* the running monitor was started with an Hls instance
    liveTimers,               \* intervals set by startLiveSync and not cleared since
    liveHlsLoaded,            \* window.Hls is present, as the monitored marker's initMedia finds it
    livePending,              \* initMedia continuations of the marker waiting for their script element
    liveMediaInitialized,     \* mediaInitialized of the monitored marker
    liveHlsInstance,          \* hlsInstance of the monitored marker's closure is not null
    liveAttached,             \* the src of the preview element is the media source of that instance
    isSeeking,
    lastSeek,                 \* Date.now() of the last corrective seek (0: none yet)
    seekTimers,               \* due times of the pending 600ms isSeeking resets
    prevSeek,                 \* time of the corrective seek before the last one (-1: none)
    poll,                     \* what the last poll of either monitor saw and did
    \* ---- live check of one cell of the all-cameras grid (liveCheck)
    gridInterval,             \* videoEl._liveInterval: due time of the next check (-1: not set yet, -2: cleared)
    gridSeek,                 \* time of the last seek of liveCheck (-1: none)
    gridPrev,                 \* time of the seek before it (-1: none)
    \* ---- stream errors of one cell of the all-cameras grid
    errorTimer,               \* videoEl._errorTimer: ticks left until it fires (-1: null)
    cellStatus,               \* status.textContent
    recovery,                 \* the recovery the ERROR handler asked of hls.js last
    errAge,                   \* ticks since the oldest fatal error that is neither cleared nor reported (-1: none)
    cancelled,                \* the last buffered fragment cancelled a pending error timer
    recoveries,               \* recoverMediaError / startLoad calls since the error was last cleared or reported
    lastError                 \* data.fatal of the last ERROR event ("none" before the first)

coreVars == <<hlsLoaded, pending, known, cameraLayer, url, gen, videoEl, mediaInitialized,
              hlsInstance, markerHls, popup, sess, nSink, nativeSrc, syncListeners,
              fsOverlay, navShown,
              currentFsCameraId, fsVideoEl, fsHlsInstance, fsVideoContainer,
              prewarmPool, persistentPrewarmRunning, miniMarkersById, handoffs,
              unloaded, layerOn, showCameras, loads, opens, pops>>

popupVars == <<popupShown, liveFs, clicks>>

mediaVars == <<paused, events, netEmpty>>

initMediaVars == <<liveHlsLoaded, livePending, liveMediaInitialized, liveHlsInstance,
                   liveAttached, listeners>>

syncVars == <<liveSyncInterval, syncHls, liveTimers, isSeeking>>

seekVars == <<lastSeek, seekTimers, prevSeek>>

gridVars == <<gridInterval, gridSeek, gridPrev>>

liveVars == <<now, popupVars, mediaVars, initMediaVars, syncVars, seekVars, poll, gridVars>>

cellVars == <<errorTimer, cellStatus, recovery, errAge, cancelled, recoveries, lastError>>

vars == <<coreVars, liveVars, cellVars>>

\* ---------------------------------------------------------------- bounds
MaxLoads == 1
MaxHandoffs == 1
MaxOpens == 1
MaxPopups == 1
MaxScriptErrors == 1    \* script elements of ensureHls() that fail to load, per document
StartTime == 5          \* Date.now() when the page is ready, in ticks
MaxTicks == 12          \* ticks the clock runs for
MaxListeners == 2       \* initMedia runs of the monitored marker
MaxClicks == 2          \* clicks on the play button
MaxLate == 2            \* ticks a timer callback can run after it is due
MaxErrAge == 15         \* errAge stops counting here
MaxRecoveries == 3      \* recoveries stops counting here

\* ------------------------------------------------------ program constants
orderedCameraIds == <<3429, 3498, 3416, 3415, 3414, 3413, 3882, 3909, 3410, 3412, 3411, 4036>>
PREFETCH_LIMIT == 8
\* durations in ticks of 200ms
POLL_MS == 4            \* setInterval(..., 800) of startLiveSync
MIN_GAP_MS == 4         \* Date.now() - lastSeek > 800
COOLDOWN_MS == 3        \* setTimeout(isSeeking = false, 600)
GRID_POLL_MS == 5       \* setInterval(liveCheck, 1000)
\* media positions in units of 0.5s
LAG_LIMIT == 3          \* lag > 1.5
EDGE_MARGIN == 1        \* end - 0.5 / livePos - 0.5

\* ---------------------------------------------------------------- inputs
\* Two ids outside the navigation order: one with a stream, one without.
OtherIds == {5001, 5002}
OrderedSet == {orderedCameraIds[i] : i \in 1..Len(orderedCameraIds)}
CamIds == OrderedSet \cup OtherIds

\* Directory snapshots (id -> stream address; 0: the item has no videoUrl).
\* Addresses 1 and 2 are two different .m3u8 playlists, address 3 is a stream
\* address without '.m3u8' in it.
SnapPartial == [id \in {3429, 3498, 4036, 5001} |-> IF id = 4036 THEN 0 ELSE 1]
SnapFull == [id \in CamIds |-> IF id = 5002 THEN 0 ELSE IF id = 3429 THEN 2 ELSE 1]
SnapMixed == [id \in {3429, 3498, 4036, 5001} |-> IF id = 3498 THEN 3 ELSE IF id = 4036 THEN 0 ELSE 1]
\* the first and the last camera of the navigation order
SnapPair == [id \in {3429, 4036} |-> 1]
\* the same and the second camera, which has no stream address
SnapTrio == [id \in {3429, 3498, 4036} |-> IF id = 3498 THEN 0 ELSE 1]
Snapshots == {SnapPartial, SnapFull}

\* String(url).indexOf('.m3u8') !== -1
IsM3u8(u) == u \in {1, 2}

\* ------------------------------------------------------- state as a record
State ==
    [hlsLoaded |-> hlsLoaded, pending |-> pending, known |-> known,
     cameraLayer |-> cameraLayer, url |-> url,
     gen |-> gen, videoEl |-> videoEl, mediaInitialized |-> mediaInitialized,
     hlsInstance |-> hlsInstance, markerHls |-> markerHls, popup |-> popup,
     sess |-> sess, nSink |-> nSink, nativeSrc |-> nativeSrc,
     syncListeners |-> syncListeners, fsOverlay |-> fsOverlay, navShown |-> navShown,
     currentFsCameraId |-> currentFsCameraId, fsVideoEl |-> fsVideoEl,
     fsHlsInstance |-> fsHlsInstance, fsVideoContainer |-> fsVideoContainer,
     prewarmPool |-> prewarmPool,
     persistentPrewarmRunning |-> persistentPrewarmRunning,
     miniMarkersById |-> miniMarkersById, handoffs |-> handoffs,
     unloaded |-> unloaded, layerOn |-> layerOn, showCameras |-> showCameras,
     loads |-> loads, opens |-> opens, pops |-> pops,
     micro |-> <<>>]          \* continuations registered by the running handler

Commit(t) ==
    /\ hlsLoaded' = t.hlsLoaded
    /\ pending' = t.pending
    /\ known' = t.known
    /\ cameraLayer' = t.cameraLayer
    /\ url' = t.url
    /\ gen' = t.gen
    /\ videoEl' = t.videoEl
    /\ mediaInitialized' = t.mediaInitialized
    /\ hlsInstance' = t.hlsInstance
    /\ markerHls' = t.markerHls
    /\ popup' = t.popup
    /\ sess' = t.sess
    /\ nSink' = t.nSink
    /\ nativeSrc' = t.nativeSrc
    /\ syncListeners' = t.syncListeners
    /\ fsOverlay' = t.fsOverlay
    /\ navShown' = t.navShown
    /\ currentFsCameraId' = t.currentFsCameraId
    /\ fsVideoEl' = t.fsVideoEl
    /\ fsHlsInstance' = t.fsHlsInstance
    /\ fsVideoContainer' = t.fsVideoContainer
    /\ prewarmPool' = t.prewarmPool
    /\ persistentPrewarmRunning' = t.persistentPrewarmRunning
    /\ miniMarkersById' = t.miniMarkersById
    /\ handoffs' = t.handoffs
    /\ unloaded' = t.unloaded
    /\ layerOn' = t.layerOn
    /\ showCameras' = t.showCameras
    /\ loads' = t.loads
    /\ opens' = t.opens
    /\ pops' = t.pops

\* ------------------------------------------------------------ Hls instances
\* Instances are numbered by the ensureHls() calls whose continuations make
\* them: the x-th call reserves sess[x], and the instance exists (made) once
\* the continuation has run with a usable Hls.
NoHls(k) == [cam |-> k.cam, url |-> k.u, sink |-> 0, dead |-> FALSE,
             multi |-> FALSE,            \* attached while on another sink
             made |-> FALSE,
             by |-> k.kind]              \* the ensureHls() call site

\* detachMedia as it would be if it left the media attached
detachMediaNoop(s, x) == s

\* hls.detachMedia()
detachMedia(s, x) == [s EXCEPT !.sess[x].sink = 0]

\* hls.attachMedia(v): the element's src becomes the instance's media source
attachMedia(s, x, v) ==
    [s EXCEPT !.sess[x].sink = v,
              !.sess[x].multi = @ \/ s.sess[x].sink \notin {0, v},
              !.nativeSrc = @ \ {v}]

\* new Hls(); loadSource(k.u); attachMedia(v) in the continuation k
NewHls(s, k, v) == attachMedia([s EXCEPT !.sess[k.x].made = TRUE], k.x, v)

\* hls.destroy(): releases the media and the engine for good
destroy(s, x) == [s EXCEPT !.sess[x].sink = 0, !.sess[x].dead = TRUE]

\* document.createElement('video'): the new element is nSink + 1
NewVideo(s) == [s EXCEPT !.nSink = @ + 1]

\* v.src = url (nothing for v = null: the assignment throws and is caught)
setSrc(s, v) == IF v = 0 THEN s ELSE [s EXCEPT !.nativeSrc = @ \cup {v}]

IndexOf(id) ==
    IF id \in OrderedSet
    THEN CHOOSE i \in 1..Len(orderedCameraIds) : orderedCameraIds[i] = id
    ELSE 0

\* -------------------------------------------------- ensureHls continuations
Cont(kind, c, u, v, g, h) ==
    [kind |-> kind, cam |-> c, u |-> u, v |-> v, g |-> g, h |-> h, x |-> 0]

\* ensureHls().then(k): k is queued behind the running handler
ensureHls(s, k) ==
    [s EXCEPT !.sess = Append(@, NoHls(k)),
              !.micro = Append(@, [k EXCEPT !.x = Len(s.sess) + 1])]

\* Each continuation is given Hls: TRUE for the library (Hls.isSupported()),
\* FALSE for the null of a script element that failed to load.

\* prewarmNearby / startPersistentPrewarm: pool.hls = h on the captured entry,
\* or hv.src = url
ContPool(s, k, Hls) ==
    IF Hls THEN [NewHls(s, k, k.v) EXCEPT !.prewarmPool[k.cam].hls = k.x]
    ELSE setSrc(s, k.v)

\* initMedia: hlsInstance = new Hls(...); marker._hlsInstance = hlsInstance,
\* or videoEl.src = videoUrl; then the play / pause listeners are added.
\* The closure belongs to the marker built by load k.g; a later snapshot has
\* replaced that marker when gen differs.
ContInitMedia(s, k, Hls) ==
    LET s0 == [s EXCEPT !.syncListeners = @ \cup {k.v}]
    IN IF Hls
       THEN LET s1 == NewHls(s0, k, k.v)
            IN IF s.gen[k.cam] = k.g
               THEN [s1 EXCEPT !.hlsInstance[k.cam] = k.x, !.markerHls[k.cam] = k.x]
               ELSE s1
       ELSE setSrc(s0, k.v)

\* openCameraFullscreen: fsHlsInstance = new Hls(...); attachMedia(fsVideoEl),
\* or fsVideoEl.src = playUrl
ContOpenFs(s, k, Hls) ==
    IF Hls THEN [NewHls(s, k, s.fsVideoEl) EXCEPT !.fsHlsInstance = k.x]
    ELSE setSrc(s, s.fsVideoEl)

\* switchFullscreenCamera, fresh-session branch: h.attachMedia(newV);
\* fsHlsInstance = h, or newV.src = newUrl
ContSwitchFresh(s, k, Hls) ==
    IF Hls THEN [NewHls(s, k, k.v) EXCEPT !.fsHlsInstance = k.x]
    ELSE setSrc(s, k.v)

\* attachTimeout, no instance available: hh attached to newV, fsHlsInstance = hh,
\* FRAG_BUFFERED listener that finalizes the swap; or newV.src = newUrl
ContEscFresh(s, k, Hls) ==
    IF Hls THEN [NewHls(s, k, k.v) EXCEPT !.fsHlsInstance = k.x, !.handoffs[k.h].frag = k.x]
    ELSE setSrc(s, k.v)

RunCont(s, k, Hls) ==
    CASE k.kind = "pool" -> ContPool(s, k, Hls)
      [] k.kind = "initMedia" -> ContInitMedia(s, k, Hls)
      [] k.kind = "openFs" -> ContOpenFs(s, k, Hls)
      [] k.kind = "switchFresh" -> ContSwitchFresh(s, k, Hls)
      [] k.kind = "escFresh" -> ContEscFresh(s, k, Hls)

RECURSIVE RunAll(_, _)
RunAll(s, ks) == IF ks = <<>> THEN s ELSE RunAll(RunCont(s, Head(ks), TRUE), Tail(ks))

\* End of a handler: with window.Hls present the promises resolve at once,
\* otherwise each waits for the onload or onerror of its own script element.
Settle(s) ==
    IF s.hlsLoaded
    THEN [RunAll(s, s.micro) EXCEPT !.micro = <<>>]
    ELSE [s EXCEPT !.pending = @ \o s.micro, !.micro = <<>>]

\* --------------------------------------------------------------- prewarm
NoEntry == [has |-> FALSE, video |-> 0, hls |-> 0]

\* One iteration of the forEach of prewarmNearby / startPersistentPrewarm
WarmEntry(s, id) ==
    IF s.prewarmPool[id].has THEN s
    ELSE IF id \notin s.known \/ s.url[id] = 0 THEN s
    ELSE IF ~IsM3u8(s.url[id]) THEN s
    ELSE LET s1 == NewVideo(s)
             hv == s1.nSink
             s2 == ensureHls(s1, Cont("pool", id, s.url[id], hv, 0, 0))
         IN [s2 EXCEPT !.prewarmPool[id] = [has |-> TRUE, video |-> hv, hls |-> 0]]

RECURSIVE WarmAll(_, _)
WarmAll(s, ids) == IF ids = <<>> THEN s ELSE WarmAll(WarmEntry(s, Head(ids)), Tail(ids))

startPersistentPrewarm(s, idList) ==
    IF idList = <<>> THEN s
    ELSE [WarmAll(s, idList) EXCEPT !.persistentPrewarmRunning = TRUE]

RECURSIVE Uniq(_, _)
Uniq(list, acc) ==
    IF list = <<>> THEN acc
    ELSE Uniq(Tail(list),
              IF \E i \in 1..Len(acc) : acc[i] = Head(list) THEN acc ELSE Append(acc, Head(list)))

Min(a, b) == IF a < b THEN a ELSE b

\* the list as it would be without the two further neighbours n2 and p2
NearbyListNarrow(centerId) ==
    LET n == Len(orderedCameraIds)
        idx == IndexOf(centerId) - 1
        at(j) == orderedCameraIds[(j % n) + 1]
        list == IF idx = -1 THEN <<centerId>>
                ELSE <<centerId, at(idx + 1), at(idx - 1 + n)>>
        uniq == Uniq(list, <<>>)
    IN SubSeq(uniq, 1, Min(PREFETCH_LIMIT, Len(uniq)))

\* the list of ids prewarmNearby asks for: center, next, prev, next+1, prev-1
NearbyList(centerId) ==
    LET n == Len(orderedCameraIds)
        idx == IndexOf(centerId) - 1          \* 0-based, -1 when absent
        at(j) == orderedCameraIds[(j % n) + 1]
        list == IF idx = -1 THEN <<centerId>>
                ELSE <<centerId, at(idx + 1), at(idx - 1 + n), at(idx + 2), at(idx - 2 + n)>>
        uniq == Uniq(list, <<>>)
    IN SubSeq(uniq, 1, Min(PREFETCH_LIMIT, Len(uniq)))

prewarmNearby(s, centerId) ==
    IF centerId = 0 THEN s ELSE WarmAll(s, NearbyList(centerId))

\* usePrewarm(id): the pooled instance, detached from its hidden video, or
\* null (0).  The entry stays in prewarmPool.  Result: <<instance, state>>.
usePrewarm(s, id) ==
    LET p == s.prewarmPool[id]
    IN IF ~p.has THEN <<0, s>>
       ELSE IF p.hls # 0 THEN <<p.hls, detachMedia(s, p.hls)>>
       ELSE <<0, s>>

PoolSize(s) == Cardinality({id \in CamIds : s.prewarmPool[id].has})

\* ------------------------------------------------------- inline preview
\* initMedia() of the marker popup of camera c
initMedia(s, c) ==
    IF s.mediaInitialized[c] THEN s
    ELSE ensureHls([s EXCEPT !.mediaInitialized[c] = TRUE],
                   Cont("initMedia", c, s.url[c], s.videoEl[c], s.gen[c], 0))

\* marker.on('popupopen'): registered only for a marker with a stream
onPopupOpen(s, c) == IF s.videoEl[c] = 0 THEN s ELSE initMedia(s, c)

\* marker.on('popupclose'): the instance is detached and kept on the marker,
\* the element loses its src
onPopupClose(s, c) ==
    IF s.videoEl[c] = 0 THEN s
    ELSE LET x == s.hlsInstance[c]
             s1 == IF x # 0 THEN [detachMedia(s, x) EXCEPT !.markerHls[c] = x] ELSE s
         IN [s1 EXCEPT !.nativeSrc = @ \ {s.videoEl[c]},
                       !.mediaInitialized[c] = FALSE]

\* Leaflet: closing the open popup fires popupclose on its marker
closePopup(s) ==
    IF s.popup = 0 THEN s ELSE [onPopupClose(s, s.popup) EXCEPT !.popup = 0]

\* Leaflet: marker.openPopup() closes the popup that is open on the map and
\* fires popupopen on the marker; nothing happens when it is open already or
\* while the marker is not on the map: cameraLayer taken off the map, or the
\* marker of cameraById[c] removed from cameraLayer by clearLayers() and not
\* replaced because the last directory does not list c
openPopup(s, c) ==
    IF ~s.layerOn \/ c \notin s.cameraLayer THEN s
    ELSE IF s.popup = c THEN s
    ELSE onPopupOpen([closePopup(s) EXCEPT !.popup = c], c)

\* map.addLayer(cameraLayer)
addLayer(s) == [s EXCEPT !.layerOn = TRUE]

\* map.removeLayer(cameraLayer): the markers leave the map, an open popup closes
removeLayer(s) == IF s.layerOn THEN [closePopup(s) EXCEPT !.layerOn = FALSE] ELSE s

\* ------------------------------------------------------ camera directory
RECURSIVE SortedIds(_)
SortedIds(S) ==
    IF S = {} THEN <<>>
    ELSE LET m == CHOOSE x \in S : \A y \in S : x <= y
         IN <<m>> \o SortedIds(S \ {m})

\* One iteration of items.forEach: a new marker (and preview) for the item
AddMarker(s, id, u) ==
    LET s1 == IF u # 0 THEN NewVideo(s) ELSE s
    IN [s1 EXCEPT !.known = @ \cup {id},
                  !.cameraLayer = @ \cup {id},      \* cameraLayer.addLayer(marker)
                  !.url[id] = u,
                  !.gen[id] = @ + 1,
                  !.videoEl[id] = IF u # 0 THEN s1.nSink ELSE 0,
                  !.mediaInitialized[id] = FALSE,
                  !.hlsInstance[id] = 0,
                  !.markerHls[id] = 0]

RECURSIVE AddMarkers(_, _, _)
AddMarkers(s, ids, snap) ==
    IF ids = <<>> THEN s
    ELSE AddMarkers(AddMarker(s, Head(ids), snap[Head(ids)]), Tail(ids), snap)

addCameraMarkersFromArray(s, snap) ==
    LET s1 == [closePopup(s) EXCEPT !.cameraLayer = {}]    \* cameraLayer.clearLayers()
        s2 == AddMarkers(s1, SortedIds(DOMAIN snap), snap)
        s3 == IF ~s2.persistentPrewarmRunning
              THEN startPersistentPrewarm(s2, orderedCameraIds) ELSE s2
    IN [s3 EXCEPT !.loads = @ + 1]

\* ---------------------------------------------------- fullscreen overlay
\* the test as it would be if it took every id of the directory
InListAny(camId) == camId \in CamIds

InList(camId) == camId \in OrderedSet

openCameraFullscreen(s, camId) ==
    LET s1 == [s EXCEPT !.currentFsCameraId = camId, !.fsVideoContainer = {}]
        s2 == IF s1.fsHlsInstance # 0
              THEN [destroy(s1, s1.fsHlsInstance) EXCEPT !.fsHlsInstance = 0] ELSE s1
        s3 == NewVideo([s2 EXCEPT !.fsVideoEl = 0, !.nativeSrc = @ \ {s2.fsVideoEl}])
        v == s3.nSink
        s4 == [s3 EXCEPT !.fsVideoContainer = {v}, !.fsVideoEl = v]
        playUrl == s.url[camId]
        s5 == IF playUrl # 0 THEN ensureHls(s4, Cont("openFs", camId, playUrl, 0, 0, 0)) ELSE s4
        s6 == IF s5.popup = camId THEN closePopup(s5) ELSE s5     \* markerRef.closePopup()
        s7 == [s6 EXCEPT !.miniMarkersById = IF @ = {} THEN s6.known ELSE @,
                         !.navShown = InList(camId),
                         !.fsOverlay = "flex"]
        s8 == IF camId \in s7.known THEN onPopupOpen(s7, camId) ELSE s7   \* marker.fire('popupopen')
    IN prewarmNearby(s8, camId)

\* the close button as it would be if it ran closeCameraFullscreen(), the
\* catch branch of its handler, in place of location.reload()
closeCameraFullscreen(s) ==
    IF s.fsOverlay = "absent" THEN s
    ELSE LET s1 == IF s.fsVideoEl # 0
                   THEN [s EXCEPT !.fsVideoContainer = @ \ {s.fsVideoEl},
                                  !.nativeSrc = @ \ {s.fsVideoEl}, !.fsVideoEl = 0]
                   ELSE s
             s2 == IF s1.fsHlsInstance # 0
                   THEN [destroy(s1, s1.fsHlsInstance) EXCEPT !.fsHlsInstance = 0] ELSE s1
             s3 == removeLayer([s2 EXCEPT !.fsOverlay = "none"])
         IN [s3 EXCEPT !.currentFsCameraId = 0]

\* The state of a document that has just been loaded
FreshDocument ==
    [hlsLoaded |-> FALSE, pending |-> <<>>, known |-> {}, cameraLayer |-> {},
     url |-> [id \in CamIds |-> 0],
     gen |-> [id \in CamIds |-> 0],
     videoEl |-> [id \in CamIds |-> 0],
     mediaInitialized |-> [id \in CamIds |-> FALSE],
     hlsInstance |-> [id \in CamIds |-> 0],
     markerHls |-> [id \in CamIds |-> 0],
     popup |-> 0, sess |-> <<>>, nSink |-> 0, nativeSrc |-> {}, syncListeners |-> {},
     fsOverlay |-> "absent", navShown |-> FALSE,
     currentFsCameraId |-> 0, fsVideoEl |-> 0, fsHlsInstance |-> 0, fsVideoContainer |-> {},
     prewarmPool |-> [id \in CamIds |-> NoEntry],
     persistentPrewarmRunning |-> FALSE,
     miniMarkersById |-> {}, handoffs |-> <<>>,
     unloaded |-> [handoffs |-> 0, opens |-> 0],
     layerOn |-> TRUE,           \* map.addLayer(cameraLayer) of the toggle's setup
     showCameras |-> TRUE,
     loads |-> 0, opens |-> 0, pops |-> 0,
     micro |-> <<>>]

\* location.reload(): the document is discarded with its timers, listeners,
\* elements, Hls instances and waiting continuations, and loaded again.  What
\* the user has done so far stays counted; unloaded records the handoffs that
\* had not finalized and the continuations of openCameraFullscreen that were
\* still waiting.
reloadPage(s) ==
    [FreshDocument EXCEPT
        !.unloaded = [handoffs |-> Cardinality({h \in 1..Len(s.handoffs) :
                                                   ~s.handoffs[h].swapDone}),
                      opens |-> Cardinality({i \in 1..Len(s.pending) :
                                                s.pending[i].kind = "openFs"})],
        !.loads = s.loads, !.opens = s.opens, !.pops = s.pops]

\* finalizeSwap as it would be without its swapDone guard
finalizeSwapUnguarded(s, h) ==
    LET r == s.handoffs[h]
        s1 == [s EXCEPT !.handoffs[h].swapDone = TRUE, !.handoffs[h].runs = @ + 1]
        s2 == IF r.oldFsVideo # 0 /\ r.oldFsVideo \in s1.fsVideoContainer
              THEN [s1 EXCEPT !.fsVideoContainer = @ \ {r.oldFsVideo},
                              !.nativeSrc = @ \ {r.oldFsVideo}] ELSE s1
        s3 == IF r.oldFsHls # 0 /\ r.oldFsHls # s2.fsHlsInstance
              THEN [destroy(s2, r.oldFsHls) EXCEPT !.handoffs[h].killed =
                        IF s2.sess[r.oldFsHls].dead THEN @ ELSE r.oldFsHls]
              ELSE s2
    IN [s3 EXCEPT !.fsVideoEl = r.newV]

\* helper to finalize the swap of handoff h
finalizeSwap(s, h) ==
    LET r == s.handoffs[h]
    IN IF r.swapDone THEN s
       ELSE LET s1 == [s EXCEPT !.handoffs[h].swapDone = TRUE, !.handoffs[h].runs = @ + 1]
                s2 == IF r.oldFsVideo # 0 /\ r.oldFsVideo \in s1.fsVideoContainer
                      THEN [s1 EXCEPT !.fsVideoContainer = @ \ {r.oldFsVideo},
                              !.nativeSrc = @ \ {r.oldFsVideo}] ELSE s1
                s3 == IF r.oldFsHls # 0 /\ r.oldFsHls # s2.fsHlsInstance
                      THEN [destroy(s2, r.oldFsHls) EXCEPT !.handoffs[h].killed =
                                IF s2.sess[r.oldFsHls].dead THEN @ ELSE r.oldFsHls]
                      ELSE s2
            IN [s3 EXCEPT !.fsVideoEl = r.newV]

switchFullscreenCamera(s, camId) ==
    IF s.fsOverlay # "flex" THEN s
    ELSE
    LET s0 == [s EXCEPT !.currentFsCameraId = camId, !.navShown = InList(camId)]
        newUrl == IF camId \in s.known THEN s.url[camId] ELSE 0
    IN IF newUrl = 0 THEN s0
       ELSE
       LET oldFsVideo == s0.fsVideoEl
           oldFsHls == s0.fsHlsInstance
           s1 == NewVideo(s0)
           newV == s1.nSink
           s2 == [s1 EXCEPT !.fsVideoContainer = @ \cup {newV}]
           \* reuse chain: marker._hlsInstance first, then the prewarm pool
           fromMarker == s2.markerHls[camId]
           co1 == IF fromMarker = 0 THEN usePrewarm(s2, camId) ELSE <<0, s2>>
           reused == IF fromMarker # 0 THEN fromMarker ELSE co1[1]
           s3 == co1[2]
           s4 == IF reused # 0
                 THEN attachMedia([detachMedia(s3, reused) EXCEPT !.fsHlsInstance = reused],
                                  reused, newV)
                 ELSE s3
           co2 == usePrewarm(s4, camId)
           prewarmed == co2[1]
           s5 == IF prewarmed # 0
                 THEN attachMedia([detachMedia(co2[2], prewarmed) EXCEPT !.fsHlsInstance = prewarmed],
                                  prewarmed, newV)
                 ELSE co2[2]
           h == Len(s5.handoffs) + 1
           s6 == IF s5.fsHlsInstance = 0
                 THEN ensureHls(s5, Cont("switchFresh", camId, newUrl, newV, 0, h)) ELSE s5
           rec == [cam |-> camId, newUrl |-> newUrl,
                   oldFsVideo |-> oldFsVideo, oldFsHls |-> oldFsHls, newV |-> newV,
                   swapDone |-> FALSE,
                   attachTimeout |-> "armed",     \* 2200ms timer
                   hardTimer |-> "armed",         \* 4000ms timer
                   listening |-> TRUE,            \* onPlaying / onLoaded registered
                   gotFrame |-> FALSE,            \* newV has reported playing / loadeddata
                   frag |-> 0,                    \* instance carrying onFragFb
                   esc |-> FALSE,                 \* the attachTimeout callback took its recovery branch
                   co1 |-> co1[1], co2 |-> co2[1],   \* results of the usePrewarm calls
                   drv |-> IF reused # 0 \/ prewarmed # 0 THEN s5.fsHlsInstance ELSE 0,
                   runs |-> 0,                    \* executions of the finalize body
                   killed |-> 0]                  \* live instance destroyed by its finalize
           s7 == [s6 EXCEPT !.handoffs = Append(@, rec)]
       IN openPopup(s7, camId)

\* navigateFullscreen as it would be if it stepped forward whatever dir is
navigateFullscreenForward(s, dir) ==
    IF s.currentFsCameraId = 0 THEN s
    ELSE LET n == Len(orderedCameraIds)
             i0 == IndexOf(s.currentFsCameraId) - 1
             idx == IF i0 = -1 THEN 0 ELSE i0
             nextId == orderedCameraIds[((idx + 1 + n) % n) + 1]
         IN IF nextId \notin s.known THEN s
            ELSE switchFullscreenCamera(s, nextId)

navigateFullscreen(s, dir) ==
    IF s.currentFsCameraId = 0 THEN s
    ELSE LET n == Len(orderedCameraIds)
             i0 == IndexOf(s.currentFsCameraId) - 1
             idx == IF i0 = -1 THEN 0 ELSE i0
             nextId == orderedCameraIds[((idx + dir + n) % n) + 1]
         IN IF nextId \notin s.known THEN s
            ELSE switchFullscreenCamera(s, nextId)

\* =========================================================== the program
InitCore ==
    /\ hlsLoaded = FreshDocument.hlsLoaded
    /\ pending = FreshDocument.pending
    /\ known = FreshDocument.known
    /\ cameraLayer = FreshDocument.cameraLayer
    /\ url = FreshDocument.url
    /\ gen = FreshDocument.gen
    /\ videoEl = FreshDocument.videoEl
    /\ mediaInitialized = FreshDocument.mediaInitialized
    /\ hlsInstance = FreshDocument.hlsInstance
    /\ markerHls = FreshDocument.markerHls
    /\ popup = FreshDocument.popup
    /\ sess = FreshDocument.sess
    /\ nSink = FreshDocument.nSink
    /\ nativeSrc = FreshDocument.nativeSrc
    /\ syncListeners = FreshDocument.syncListeners
    /\ fsOverlay = FreshDocument.fsOverlay
    /\ navShown = FreshDocument.navShown
    /\ currentFsCameraId = FreshDocument.currentFsCameraId
    /\ fsVideoEl = FreshDocument.fsVideoEl
    /\ fsHlsInstance = FreshDocument.fsHlsInstance
    /\ fsVideoContainer = FreshDocument.fsVideoContainer
    /\ prewarmPool = FreshDocument.prewarmPool
    /\ persistentPrewarmRunning = FreshDocument.persistentPrewarmRunning
    /\ miniMarkersById = FreshDocument.miniMarkersById
    /\ handoffs = FreshDocument.handoffs
    /\ unloaded = FreshDocument.unloaded
    /\ layerOn = FreshDocument.layerOn
    /\ showCameras = FreshDocument.showCameras
    /\ loads = FreshDocument.loads
    /\ opens = FreshDocument.opens
    /\ pops = FreshDocument.pops

NoPoll == [by |-> "none", hint |-> -1, buf |-> -1, cur |-> 0, target |-> -1, seek |-> FALSE]

InitLive ==
    /\ now = StartTime
    /\ popupShown = FALSE
    /\ liveFs = FALSE
    /\ clicks = 0
    /\ listeners = 0
    /\ paused = TRUE
    /\ events = <<>>
    /\ netEmpty = TRUE
    /\ liveHlsLoaded = FALSE
    /\ livePending = 0
    /\ liveMediaInitialized = FALSE
    /\ liveHlsInstance = FALSE
    /\ liveAttached = FALSE
    /\ liveSyncInterval = -1
    /\ syncHls = FALSE
    /\ liveTimers = 0
    /\ isSeeking = FALSE
    /\ lastSeek = 0
    /\ seekTimers = {}
    /\ prevSeek = -1
    /\ poll = NoPoll
    /\ gridInterval = -1
    /\ gridSeek = -1
    /\ gridPrev = -1

\* the probe succeeded and the Hls instance was attached
InitCell ==
    /\ errorTimer = -1
    /\ cellStatus = "Loading stream..."
    /\ recovery = "none"
    /\ errAge = -1
    /\ cancelled = FALSE
    /\ recoveries = 0
    /\ lastError = "none"

Init == InitCore /\ InitLive /\ InitCell

\* A handler ran to its end: promises settle, the result becomes the state
Do(t) ==
    LET r == Settle(t)
    IN /\ Commit(r)
       /\ UNCHANGED <<liveVars, cellVars>>

\* the first directory snapshot: the loaders and addCameraMarkersFromJson
\* given {data: [...]} add the layer to the map afterwards,
\* addCameraMarkersFromJson given a bare array does not
LoadDirectory(snap) ==
    /\ loads < MaxLoads
    /\ \E bare \in BOOLEAN :
          LET t == addCameraMarkersFromArray(State, snap)
          IN Do(IF bare THEN t ELSE addLayer(t))

\* the directory is supplied again (NV Roads fetch after the embedded JSON,
\* or the "Merge cameras" button); the merge and addCameraMarkersFromJson
\* given a bare array do not add the layer back
ResupplyDirectory(snap) ==
    /\ loads >= 1
    /\ loads <= MaxLoads
    /\ \E bare \in BOOLEAN :
          LET t == addCameraMarkersFromArray(State, snap)
          IN Do(IF bare THEN t ELSE addLayer(t))

\* q without its i-th element
Without(q, i) == SubSeq(q, 1, i - 1) \o SubSeq(q, i + 1, Len(q))

\* onload of the script element of the i-th waiting ensureHls() call: the
\* script has run, window.Hls is present, and the continuation of that call
\* runs with it
HlsScriptLoaded(i) ==
    /\ i \in 1..Len(pending)
    /\ Do(RunCont([State EXCEPT !.hlsLoaded = TRUE, !.pending = Without(pending, i)],
                  pending[i], TRUE))

\* ensureHls() calls of the document whose script element has failed
ScriptErrors ==
    Cardinality({x \in 1..Len(sess) : ~sess[x].made}) - Len(pending)

\* onerror of that script element: the continuation runs with null
HlsScriptError(i) ==
    /\ i \in 1..Len(pending)
    /\ ScriptErrors < MaxScriptErrors
    /\ Do(RunCont([State EXCEPT !.pending = Without(pending, i)], pending[i], FALSE))

\* the user clicks a marker of the main map or its entry of the camera list
\* (both exist for the cameras of the last directory only)
UserOpenPopup(c) ==
    /\ c \in cameraLayer
    /\ fsOverlay # "flex"
    /\ popup # c
    /\ pops < MaxPopups
    /\ Do(openPopup([State EXCEPT !.pops = @ + 1], c))

UserClosePopup ==
    /\ popup # 0
    /\ fsOverlay # "flex"
    /\ Do(closePopup(State))

\* the user clicks the fullscreen button inside the open popup
OpenFs(c) ==
    /\ popup = c
    /\ videoEl[c] # 0
    /\ fsOverlay # "flex"
    /\ opens < MaxOpens
    /\ Do(openCameraFullscreen([State EXCEPT !.opens = @ + 1], c))

\* a later click on the fullscreen button of the open popup
OpenFsAgain(c) ==
    /\ popup = c
    /\ videoEl[c] # 0
    /\ fsOverlay # "flex"
    /\ opens >= 1
    /\ opens <= MaxOpens
    /\ Do(openCameraFullscreen([State EXCEPT !.opens = @ + 1], c))

\* a later click on a marker of the map or on its entry of the camera list
UserOpenPopupAgain(c) ==
    /\ c \in cameraLayer
    /\ fsOverlay # "flex"
    /\ popup # c
    /\ pops >= 1
    /\ pops <= MaxPopups
    /\ Do(openPopup([State EXCEPT !.pops = @ + 1], c))

\* fsCloseBtn: location.reload()
CloseFs ==
    /\ fsOverlay = "flex"
    /\ Do(reloadPage(State))

\* the 'Show cameras' checkbox is clicked
ToggleCameras ==
    /\ fsOverlay # "flex"
    /\ LET s == [State EXCEPT !.showCameras = ~@]
       IN Do(IF s.showCameras THEN addLayer(s) ELSE removeLayer(s))

\* fsPrevBtn / fsNextBtn
Navigate(dir, maxH) ==
    /\ fsOverlay = "flex"
    /\ navShown
    /\ Len(handoffs) < maxH
    /\ Do(navigateFullscreen(State, dir))

\* click on a marker of the mini map
MiniClick(c, maxH) ==
    /\ fsOverlay = "flex"
    /\ c \in miniMarkersById
    /\ Len(handoffs) < maxH
    /\ Do(switchFullscreenCamera(State, c))

\* some live instance feeds the element v
Driven(s, v) == \E x \in 1..Len(s.sess) : s.sess[x].sink = v /\ ~s.sess[x].dead

\* the element has something to play: an instance, or the address as its src
HasSource(s, v) == Driven(s, v) \/ v \in s.nativeSrc

\* onPlaying / onLoaded of handoff h (the two listeners have the same body)
onFirstFrame(s, h) ==
    LET s1 == [s EXCEPT !.handoffs[h].attachTimeout = IF @ = "armed" THEN "cleared" ELSE @,
                        !.handoffs[h].listening = FALSE,
                        !.handoffs[h].gotFrame = TRUE]
    IN finalizeSwap(s1, h)

OnPlaying(h) ==
    /\ h \in 1..Len(handoffs)
    /\ handoffs[h].listening
    /\ HasSource(State, handoffs[h].newV)
    /\ Do(onFirstFrame(State, h))

OnLoaded(h) ==
    /\ h \in 1..Len(handoffs)
    /\ handoffs[h].listening
    /\ HasSource(State, handoffs[h].newV)
    /\ Do(onFirstFrame(State, h))

\* the 2200ms attachTimeout callback of handoff h
\* isPlaying: !newV.paused && !newV.ended && newV.readyState > 2, as the
\* element reports it when the callback runs
attachTimeoutFired(s, h, isPlaying) ==
    LET r == s.handoffs[h]
        s1 == [s EXCEPT !.handoffs[h].attachTimeout = "fired"]
    IN IF isPlaying THEN s1
       ELSE LET s2 == [s1 EXCEPT !.handoffs[h].esc = TRUE]
            IN IF s2.fsHlsInstance # 0
               THEN attachMedia(detachMedia(s2, s2.fsHlsInstance), s2.fsHlsInstance, r.newV)
               ELSE ensureHls(s2, Cont("escFresh", r.cam, r.newUrl, r.newV, 0, h))

\* what the element can report: with a source it may already be playing at
\* readyState > 2 while its 'playing' / 'loadeddata' events are still queued,
\* and after 'loadeddata' alone it may still be paused or at readyState 2;
\* without a source it is not playing
IsPlayingValues(h) ==
    IF handoffs[h].gotFrame \/ HasSource(State, handoffs[h].newV) THEN BOOLEAN ELSE {FALSE}

AttachTimeout(h) ==
    /\ h \in 1..Len(handoffs)
    /\ handoffs[h].attachTimeout = "armed"
    /\ \A g \in 1..(h - 1) : handoffs[g].attachTimeout # "armed"
    /\ \E isPlaying \in IsPlayingValues(h) : Do(attachTimeoutFired(State, h, isPlaying))

\* the safety timer as it would be if it only marked itself as run
hardTimerIdle(s, h) == [s EXCEPT !.handoffs[h].hardTimer = "fired"]

\* the 4000ms safety timer of handoff h
hardTimerFired(s, h) == finalizeSwap([s EXCEPT !.handoffs[h].hardTimer = "fired"], h)

HardTimer(h) ==
    /\ h \in 1..Len(handoffs)
    /\ handoffs[h].hardTimer = "armed"
    /\ handoffs[h].attachTimeout # "armed"
    /\ \A g \in 1..(h - 1) : handoffs[g].hardTimer # "armed"
    /\ Do(hardTimerFired(State, h))

\* onFragFb: FRAG_BUFFERED of the instance created by the escalation
onFragFb(s, h) == finalizeSwap([s EXCEPT !.handoffs[h].frag = 0], h)

FragBuffered(h) ==
    /\ h \in 1..Len(handoffs)
    /\ handoffs[h].frag # 0
    /\ ~sess[handoffs[h].frag].dead
    /\ sess[handoffs[h].frag].sink # 0
    /\ Do(onFragFb(State, h))

\* ------------------------------------------------- inputs of the user
PopupIds == {3429, 5001}
MiniIds == {3429, 5001, 5002}
Hs == 1..(MaxHandoffs + 2)

\* the callbacks of the handoffs in flight
Callbacks ==
    \/ \E h \in Hs : OnPlaying(h)
    \/ \E h \in Hs : OnLoaded(h)
    \/ \E h \in Hs : AttachTimeout(h)
    \/ \E h \in Hs : HardTimer(h)
    \/ \E h \in Hs : FragBuffered(h)

\* Every operation around the small directory, at most MaxHandoffs camera
\* switches
Next ==
    \/ LoadDirectory(SnapPartial)
    \/ \E i \in DOMAIN pending : HlsScriptLoaded(i)
    \/ \E i \in DOMAIN pending : HlsScriptError(i)
    \/ \E c \in PopupIds : UserOpenPopup(c)
    \/ UserClosePopup
    \/ \E c \in PopupIds : OpenFs(c)
    \/ CloseFs
    \/ ToggleCameras
    \/ \E dir \in {-1, 1} : Navigate(dir, MaxHandoffs)
    \/ \E c \in MiniIds : MiniClick(c, MaxHandoffs)
    \/ Callbacks

Spec == Init /\ [][Next]_vars

\* One focused view of camera 3429 on the small directory, opened, switched
\* to the next camera at most MaxHandoffs times and closed
NextOne ==
    \/ LoadDirectory(SnapPartial)
    \/ \E i \in DOMAIN pending : HlsScriptLoaded(i)
    \/ \E i \in DOMAIN pending : HlsScriptError(i)
    \/ UserOpenPopup(3429)
    \/ OpenFs(3429)
    \/ CloseFs
    \/ Navigate(1, MaxHandoffs)
    \/ Callbacks

SpecOne == Init /\ [][NextOne]_vars

\* the same, with timers that fire: a pending setTimeout callback is run by
\* the event loop once it is due
FairOne ==
    /\ SpecOne
    /\ \A h \in 1..MaxHandoffs : WF_vars(AttachTimeout(h)) /\ WF_vars(HardTimer(h))

\* Overlapping camera switches (MaxHandoffs + 1) with prev / next while the
\* overlay stays open on a directory of the first two cameras and the last
\* one of the order, with the attach timers of the handoffs
NextTwo ==
    \/ LoadDirectory(SnapTrio)
    \/ \E i \in DOMAIN pending : HlsScriptLoaded(i)
    \/ \E i \in DOMAIN pending : HlsScriptError(i)
    \/ UserOpenPopup(4036)
    \/ OpenFs(4036)
    \/ \E dir \in {-1, 1} : Navigate(dir, MaxHandoffs + 1)
    \/ \E h \in Hs : AttachTimeout(h)

SpecTwo == Init /\ [][NextTwo]_vars

\* A longer run of camera switches (MaxHandoffs + 2) with prev / next while
\* the overlay stays open on a directory of the first and the last camera
\* of the order, with the 'playing' events of the handoffs
NextDeep ==
    \/ LoadDirectory(SnapPair)
    \/ \E i \in DOMAIN pending : HlsScriptLoaded(i)
    \/ \E i \in DOMAIN pending : HlsScriptError(i)
    \/ UserOpenPopup(4036)
    \/ OpenFs(4036)
    \/ \E dir \in {-1, 1} : Navigate(dir, MaxHandoffs + 2)
    \/ \E h \in Hs : OnPlaying(h)

SpecDeep == Init /\ [][NextDeep]_vars

\* the directory supplied more than once
NextDir ==
    \/ \E snap \in Snapshots : LoadDirectory(snap)
    \/ \E snap \in Snapshots : ResupplyDirectory(snap)
    \/ \E i \in DOMAIN pending : HlsScriptLoaded(i)
    \/ \E i \in DOMAIN pending : HlsScriptError(i)

SpecDir == Init /\ [][NextDir]_vars

\* the focused view opened, closed and opened again on the small directory,
\* without handoffs
NextReopen ==
    \/ LoadDirectory(SnapPartial)
    \/ ResupplyDirectory(SnapPartial)
    \/ \E i \in DOMAIN pending : HlsScriptLoaded(i)
    \/ \E i \in DOMAIN pending : HlsScriptError(i)
    \/ \E c \in PopupIds : UserOpenPopup(c)
    \/ \E c \in PopupIds : UserOpenPopupAgain(c)
    \/ UserClosePopup
    \/ \E c \in PopupIds : OpenFs(c)
    \/ \E c \in PopupIds : OpenFsAgain(c)
    \/ CloseFs
    \/ ToggleCameras

SpecReopen == Init /\ [][NextReopen]_vars

\* warming around previews and one focused view, on directories of which one
\* holds an address that is not a playlist
NextWarm ==
    \/ \E snap \in {SnapPartial, SnapMixed} : LoadDirectory(snap)
    \/ \E snap \in {SnapPartial, SnapMixed} : ResupplyDirectory(snap)
    \/ \E i \in DOMAIN pending : HlsScriptLoaded(i)
    \/ \E i \in DOMAIN pending : HlsScriptError(i)
    \/ \E c \in PopupIds : UserOpenPopup(c)
    \/ \E c \in PopupIds : OpenFs(c)

SpecWarm == Init /\ [][NextWarm]_vars

\* ======================================================= live-sync monitor
\* What a poll can observe (positions in units of 0.5s; -1: not available)
Hints == {-1, 20}           \* hls.liveSyncPosition
BufEnds == {-1, 21}         \* videoEl.buffered.end(last)
Curs == {16, 18}            \* videoEl.currentTime

Max(a, b) == IF a > b THEN a ELSE b

\* target of startLiveSync's poll: the hint, else buffered end minus the margin
LiveTarget(hint, buf) ==
    IF hint # -1 THEN hint
    ELSE IF buf # -1 THEN Max(0, buf - EDGE_MARGIN)
    ELSE -1

\* the condition under which the poll jumps
ShouldSeek(target, cur, t, last) ==
    /\ target - cur > LAG_LIMIT
    /\ t - last > MIN_GAP_MS

\* stopLiveSync(): <<liveSyncInterval, isSeeking>>
stopLiveSync == <<-1, FALSE>>

\* startLiveSync(): stopLiveSync(), then a new interval
startLiveSync(t) == <<t + POLL_MS, stopLiveSync[2]>>

\* clearInterval(liveSyncInterval) of stopLiveSync(), on the timers of the page
timersAfterStop(iv, n) == IF iv # -1 THEN n - 1 ELSE n

\* startLiveSync as it would be without its stopLiveSync() call
timersAfterStartNoStop(iv, n) == n + 1

\* startLiveSync(): stopLiveSync(), then setInterval
timersAfterStart(iv, n) == timersAfterStop(iv, n) + 1

\* the k registered 'play' listeners run one after the other:
\* <<liveSyncInterval, liveTimers>> after the last one
RECURSIVE PlayListeners(_, _, _, _)
PlayListeners(k, iv, n, t) ==
    IF k = 0 THEN <<iv, n>>
    ELSE PlayListeners(k - 1, startLiveSync(t)[1], timersAfterStart(iv, n), t)

\* the k registered 'pause' listeners run one after the other
RECURSIVE PauseListeners(_, _, _)
PauseListeners(k, iv, n) ==
    IF k = 0 THEN <<iv, n>>
    ELSE PauseListeners(k - 1, stopLiveSync[1], timersAfterStop(iv, n))

\* ---- the preview <video> of the marker, as the handlers see and change it
Media == [paused |-> paused, events |-> events, netEmpty |-> netEmpty]

SetMedia(m) ==
    /\ paused' = m.paused
    /\ events' = m.events
    /\ netEmpty' = m.netEmpty

\* videoEl.play(): a paused element starts and a 'play' event is queued;
\* nothing changes on an element that is not paused
play(m) ==
    [m EXCEPT !.paused = FALSE,
              !.events = IF m.paused THEN Append(@, "play") ELSE @]

\* videoEl.pause(): an element that is not paused stops and a 'pause' event
\* is queued
pause(m) ==
    [m EXCEPT !.paused = TRUE,
              !.events = IF m.paused THEN @ ELSE Append(@, "pause")]

\* The load algorithm of the element, run when its src is set (videoEl.src =
\* ..., attachMedia of hls.js) and by videoEl.load(): the events still queued
\* on the element are dropped, and an element that had a source goes back to
\* paused without a 'pause' event
load(m) ==
    [paused |-> IF m.netEmpty THEN m.paused ELSE TRUE,
     events |-> <<>>,
     netEmpty |-> FALSE]

\* The element after detachMedia() of the instance whose media source is its
\* src (hls.js 1.4.2: media.removeAttribute('src'); media.load()): the load
\* algorithm as above, which finds no source and leaves networkState EMPTY
unload(m) ==
    [paused |-> IF m.netEmpty THEN m.paused ELSE TRUE,
     events |-> <<>>,
     netEmpty |-> TRUE]

\* the element after the popupclose handler: videoEl.pause(), detachMedia()
\* of the instance, then src = '' and videoEl.load()
closedMedia(m) == load(pause(m))

\* The element after the continuation of initMedia's ensureHls() call, given
\* whether it received a usable Hls: with one it attaches a new instance and
\* calls videoEl.play(); without (the script failed to load) it only sets
\* videoEl.src
initMediaCont(Hls, m) == IF Hls THEN play(load(m)) ELSE load(m)

\* initMedia calls of the monitored marker that got past its guard
InitMediaRuns == listeners + livePending

\* initMedia() with mediaInitialized = inited on the element m, att telling
\* whether the instance of the closure is attached to it: nothing when
\* inited; else the flag is set and the continuation runs at once when
\* window.Hls is present, and waits for the onload of its own script element
\* otherwise.  The continuation attaches a new instance and registers
\* another pair of play / pause listeners.
liveInitMedia(m, inited, att) ==
    IF inited
    THEN /\ SetMedia(m)
         /\ liveMediaInitialized' = TRUE
         /\ liveAttached' = att
         /\ UNCHANGED <<liveHlsLoaded, livePending, liveHlsInstance, listeners>>
    ELSE /\ liveMediaInitialized' = TRUE
         /\ UNCHANGED liveHlsLoaded
         /\ IF liveHlsLoaded
            THEN /\ SetMedia(initMediaCont(TRUE, m))
                 /\ listeners' = listeners + 1
                 /\ liveHlsInstance' = TRUE
                 /\ liveAttached' = TRUE
                 /\ UNCHANGED livePending
            ELSE /\ SetMedia(m)
                 /\ livePending' = livePending + 1
                 /\ liveAttached' = att
                 /\ UNCHANGED <<listeners, liveHlsInstance>>

\* due times of the timers that are set
DueTimes ==
    (IF liveSyncInterval >= 0 THEN {liveSyncInterval} ELSE {})
        \cup (IF gridInterval >= 0 THEN {gridInterval} ELSE {})
        \cup seekTimers

\* time passes; the event loop may run a callback up to MaxLate ticks after
\* it is due
LiveTick ==
    /\ now < StartTime + MaxTicks
    /\ \A d \in DueTimes : now < d + MaxLate
    /\ now' = now + 1
    /\ UNCHANGED <<coreVars, cellVars, popupVars, mediaVars, initMediaVars, syncVars,
                   seekVars, poll, gridVars>>

\* popupopen of the marker by a click on the marker or its list entry, with
\* the map not covered by the overlay: initMedia()
LivePopupOpen ==
    /\ ~popupShown
    /\ ~liveFs
    /\ liveMediaInitialized \/ InitMediaRuns < MaxListeners
    /\ popupShown' = TRUE
    /\ liveInitMedia(Media, liveMediaInitialized, liveAttached)
    /\ UNCHANGED <<coreVars, cellVars, now, liveFs, clicks, syncVars, seekVars, poll, gridVars>>

\* popupclose (the close button of the popup, a click on the map, or the
\* popup of another marker opening, under the overlay by a camera switch to
\* it): videoEl.pause(); stopLiveSync(); detachMedia(); src = ''; load();
\* mediaInitialized = false
LivePopupClose ==
    /\ popupShown
    /\ popupShown' = FALSE
    /\ SetMedia(closedMedia(Media))
    /\ liveSyncInterval' = stopLiveSync[1]
    /\ liveTimers' = timersAfterStop(liveSyncInterval, liveTimers)
    /\ isSeeking' = stopLiveSync[2]
    /\ syncHls' = FALSE
    /\ liveMediaInitialized' = FALSE
    /\ liveAttached' = FALSE
    /\ UNCHANGED <<coreVars, cellVars, now, liveFs, clicks, liveHlsLoaded, livePending,
                   liveHlsInstance, listeners, seekVars, poll, gridVars>>

\* the fullscreen button of the open popup: openCameraFullscreen closes the
\* popup (popupclose as above, which resets mediaInitialized) and then fires
\* 'popupopen' on the marker, which runs initMedia() while the popup stays
\* closed; the overlay covers the map from here on
LiveOpenFullscreen ==
    /\ popupShown
    /\ ~liveFs
    /\ InitMediaRuns < MaxListeners
    /\ popupShown' = FALSE
    /\ liveFs' = TRUE
    /\ liveSyncInterval' = stopLiveSync[1]
    /\ liveTimers' = timersAfterStop(liveSyncInterval, liveTimers)
    /\ isSeeking' = stopLiveSync[2]
    /\ syncHls' = FALSE
    /\ liveInitMedia(closedMedia(Media), FALSE, FALSE)
    /\ UNCHANGED <<coreVars, cellVars, now, clicks, seekVars, poll, gridVars>>

\* the fullscreen button of the popup of another marker, the popup of the
\* monitored marker being closed: the overlay covers the map
LiveOtherFullscreen ==
    /\ ~popupShown
    /\ ~liveFs
    /\ liveFs' = TRUE
    /\ UNCHANGED <<coreVars, cellVars, now, popupShown, clicks, mediaVars, initMediaVars,
                   syncVars, seekVars, poll, gridVars>>

\* switchFullscreenCamera to the monitored camera (prev / next or its marker
\* on the mini map) while the overlay is displayed: marker._hlsInstance is
\* detached from the preview element, if it is attached to it, and moved to
\* the new element of the overlay; then marker.openPopup(), which fires
\* popupopen (initMedia()) unless the popup is open already or the marker
\* has left the map (shown = FALSE).  The monitor's interval is not touched.
LiveSwitchTo ==
    /\ liveFs
    /\ \E shown \in BOOLEAN :
          LET m == IF liveHlsInstance /\ liveAttached THEN unload(Media) ELSE Media
              fires == shown /\ ~popupShown
          IN /\ fires => (liveMediaInitialized \/ InitMediaRuns < MaxListeners)
             /\ popupShown' = (popupShown \/ shown)
             /\ IF fires
                THEN liveInitMedia(m, liveMediaInitialized, FALSE)
                ELSE /\ SetMedia(m)
                     /\ liveAttached' = FALSE
                     /\ UNCHANGED <<liveHlsLoaded, livePending, liveMediaInitialized,
                                    liveHlsInstance, listeners>>
    /\ UNCHANGED <<coreVars, cellVars, now, liveFs, clicks, syncVars, seekVars, poll, gridVars>>

\* fsCloseBtn: location.reload() discards the document with its elements,
\* listeners, timers and closure variables
LiveReload ==
    /\ liveFs
    /\ liveFs' = FALSE
    /\ popupShown' = FALSE
    /\ listeners' = 0
    /\ paused' = TRUE
    /\ events' = <<>>
    /\ netEmpty' = TRUE
    /\ liveHlsLoaded' = FALSE
    /\ livePending' = 0
    /\ liveMediaInitialized' = FALSE
    /\ liveHlsInstance' = FALSE
    /\ liveAttached' = FALSE
    /\ liveSyncInterval' = -1
    /\ syncHls' = FALSE
    /\ liveTimers' = 0
    /\ isSeeking' = FALSE
    /\ lastSeek' = 0
    /\ seekTimers' = {}
    /\ prevSeek' = -1
    /\ poll' = NoPoll
    /\ UNCHANGED <<coreVars, cellVars, now, clicks, gridVars>>

\* onload of a script element that an initMedia of the marker is waiting for:
\* window.Hls is present and that continuation runs
LiveScriptLoaded ==
    /\ livePending > 0
    /\ livePending' = livePending - 1
    /\ liveHlsLoaded' = TRUE
    /\ SetMedia(initMediaCont(TRUE, Media))
    /\ listeners' = listeners + 1
    /\ liveHlsInstance' = TRUE
    /\ liveAttached' = TRUE
    /\ UNCHANGED <<coreVars, cellVars, now, popupVars, liveMediaInitialized, syncVars,
                   seekVars, poll, gridVars>>

\* onerror of such a script element: the continuation runs with Hls = null
\* and replaces the src of the element
LiveScriptError ==
    /\ livePending > 0
    /\ livePending' = livePending - 1
    /\ SetMedia(initMediaCont(FALSE, Media))
    /\ listeners' = listeners + 1
    /\ liveAttached' = FALSE
    /\ UNCHANGED <<coreVars, cellVars, now, popupVars, liveHlsLoaded, liveMediaInitialized,
                   liveHlsInstance, syncVars, seekVars, poll, gridVars>>

\* onload of a script element of another ensureHls() call of the page (the
\* prewarm pool, another marker): window.Hls is present from here on
LiveOtherScriptLoaded ==
    /\ ~liveHlsLoaded
    /\ liveHlsLoaded' = TRUE
    /\ UNCHANGED <<coreVars, cellVars, now, popupVars, mediaVars, livePending,
                   liveMediaInitialized, liveHlsInstance, liveAttached, listeners, syncVars,
                   seekVars, poll, gridVars>>

\* playBtn while paused (mediaInitialized is true while the popup is shown):
\* videoEl.play()
LivePlayClick ==
    /\ popupShown
    /\ ~liveFs
    /\ paused
    /\ clicks < MaxClicks
    /\ clicks' = clicks + 1
    /\ SetMedia(play(Media))
    /\ UNCHANGED <<coreVars, cellVars, now, popupShown, liveFs, initMediaVars, syncVars,
                   seekVars, poll, gridVars>>

\* playBtn while playing: videoEl.pause()
LivePauseClick ==
    /\ popupShown
    /\ ~liveFs
    /\ ~paused
    /\ clicks < MaxClicks
    /\ clicks' = clicks + 1
    /\ SetMedia(pause(Media))
    /\ UNCHANGED <<coreVars, cellVars, now, popupShown, liveFs, initMediaVars, syncVars,
                   seekVars, poll, gridVars>>

\* the oldest queued event is 'play' and reaches the registered listeners:
\* startLiveSync(hlsInstance)
LivePlayEvent ==
    /\ events # <<>>
    /\ Head(events) = "play"
    /\ events' = Tail(events)
    /\ IF listeners > 0
       THEN /\ liveSyncInterval' = PlayListeners(listeners, liveSyncInterval, liveTimers, now)[1]
            /\ liveTimers' = PlayListeners(listeners, liveSyncInterval, liveTimers, now)[2]
            /\ isSeeking' = startLiveSync(now)[2]
            /\ syncHls' = liveHlsInstance
       ELSE UNCHANGED syncVars
    /\ UNCHANGED <<coreVars, cellVars, now, popupVars, paused, netEmpty, initMediaVars,
                   seekVars, poll, gridVars>>

\* the oldest queued event is 'pause' and reaches the registered listeners:
\* stopLiveSync()
LivePauseEvent ==
    /\ events # <<>>
    /\ Head(events) = "pause"
    /\ events' = Tail(events)
    /\ IF listeners > 0
       THEN /\ liveSyncInterval' = PauseListeners(listeners, liveSyncInterval, liveTimers)[1]
            /\ liveTimers' = PauseListeners(listeners, liveSyncInterval, liveTimers)[2]
            /\ isSeeking' = stopLiveSync[2]
            /\ syncHls' = FALSE
       ELSE UNCHANGED syncVars
    /\ UNCHANGED <<coreVars, cellVars, now, popupVars, paused, netEmpty, initMediaVars,
                   seekVars, poll, gridVars>>

\* what hlsInstance.liveSyncPosition can be for the monitor that is running:
\* startLiveSync got the instance of the closure, or null
LiveHints == IF syncHls THEN Hints ELSE {-1}

\* due times of the next callback of an interval of `every` ticks whose
\* callback, due at `due`, runs at t: a full interval after it ran, or on
\* the schedule it was set on
NextDue(due, every, t) == {t + every, due + every}

\* the poll as it would be without `if (videoEl.paused || isSeeking) return`
LivePollUnguarded(hint, buf, cur) ==
    /\ liveSyncInterval >= 0
    /\ liveSyncInterval <= now
    /\ hint \in LiveHints
    /\ liveSyncInterval' \in NextDue(liveSyncInterval, POLL_MS, now)
    /\ LET target == LiveTarget(hint, buf)
           jump == /\ target # -1
                   /\ ShouldSeek(target, cur, now, lastSeek)
       IN /\ poll' = [by |-> "live", hint |-> hint, buf |-> buf, cur |-> cur,
                      target |-> target, seek |-> jump]
          /\ IF jump
             THEN /\ isSeeking' = TRUE
                  /\ prevSeek' = IF lastSeek = 0 THEN -1 ELSE lastSeek
                  /\ lastSeek' = now
                  /\ seekTimers' = seekTimers \cup {now + COOLDOWN_MS}
             ELSE UNCHANGED <<isSeeking, prevSeek, lastSeek, seekTimers>>
    /\ UNCHANGED <<coreVars, cellVars, now, popupVars, mediaVars, initMediaVars,
                   syncHls, liveTimers, gridVars>>

\* the interval callback of startLiveSync
LivePoll(hint, buf, cur) ==
    /\ liveSyncInterval >= 0
    /\ liveSyncInterval <= now
    /\ hint \in LiveHints
    /\ liveSyncInterval' \in NextDue(liveSyncInterval, POLL_MS, now)
    /\ LET target == LiveTarget(hint, buf)
           jump == /\ ~(paused \/ isSeeking)
                   /\ target # -1
                   /\ ShouldSeek(target, cur, now, lastSeek)
       IN /\ poll' = [by |-> "live", hint |-> hint, buf |-> buf, cur |-> cur,
                      target |-> target, seek |-> jump]
          /\ IF jump
             THEN /\ isSeeking' = TRUE
                  /\ prevSeek' = IF lastSeek = 0 THEN -1 ELSE lastSeek
                  /\ lastSeek' = now
                  /\ seekTimers' = seekTimers \cup {now + COOLDOWN_MS}
             ELSE UNCHANGED <<isSeeking, prevSeek, lastSeek, seekTimers>>
    /\ UNCHANGED <<coreVars, cellVars, now, popupVars, mediaVars, initMediaVars,
                   syncHls, liveTimers, gridVars>>

\* setTimeout(function () { isSeeking = false; }, 600)
LiveSeekDone ==
    /\ \E t \in seekTimers :
          /\ t <= now
          /\ seekTimers' = seekTimers \ {t}
    /\ isSeeking' = FALSE
    /\ UNCHANGED <<coreVars, cellVars, now, popupVars, mediaVars, initMediaVars,
                   liveSyncInterval, syncHls, liveTimers, lastSeek, prevSeek, poll, gridVars>>

\* The preview of one marker: its popup opened and closed, the play button,
\* the focused view opened from its popup or from another one, switched to
\* the camera and closed again, and the polls of the monitor
NextLive ==
    \/ LiveTick
    \/ LivePopupOpen
    \/ LivePopupClose
    \/ LiveOpenFullscreen
    \/ LiveOtherFullscreen
    \/ LiveSwitchTo
    \/ LiveReload
    \/ LiveScriptLoaded
    \/ LiveScriptError
    \/ LiveOtherScriptLoaded
    \/ LivePlayClick
    \/ LivePauseClick
    \/ LivePlayEvent
    \/ LivePauseEvent
    \/ \E hint \in Hints, buf \in BufEnds, cur \in Curs : LivePoll(hint, buf, cur)
    \/ LiveSeekDone

SpecLive == Init /\ [][NextLive]_vars

\* ---- one cell of the all-cameras grid, a document of its own
UnchangedLive ==
    UNCHANGED <<popupVars, mediaVars, initMediaVars, syncVars, seekVars>>

\* the continuation of the cell's ensureHls() call with a usable Hls and an
\* .m3u8 address: the player is attached and liveCheck is scheduled
GridAttach ==
    /\ gridInterval = -1
    /\ gridInterval' = now + GRID_POLL_MS
    /\ UNCHANGED <<coreVars, cellVars, now, poll, gridSeek, gridPrev>>
    /\ UnchangedLive

\* cleanup: the cell's video errored or left the page (-2: cleaned up)
GridCleanup ==
    /\ gridInterval >= 0
    /\ gridInterval' = -2
    /\ UNCHANGED <<coreVars, cellVars, now, poll, gridSeek, gridPrev>>
    /\ UnchangedLive

\* livePos of liveCheck: the hint unless it is falsy, else the buffered end
GridLivePos(hint, buf) ==
    IF hint # -1 /\ hint # 0 THEN hint
    ELSE IF buf # -1 THEN buf
    ELSE -1

\* liveCheck
GridPoll(hint, buf, cur) ==
    /\ gridInterval >= 0
    /\ gridInterval <= now
    /\ gridInterval' \in NextDue(gridInterval, GRID_POLL_MS, now)
    /\ LET livePos == GridLivePos(hint, buf)
           jump == livePos # -1 /\ livePos # 0 /\ livePos - cur > LAG_LIMIT
           target == IF jump THEN Max(0, livePos - EDGE_MARGIN) ELSE -1
       IN /\ poll' = [by |-> "grid", hint |-> hint, buf |-> buf, cur |-> cur,
                      target |-> target, seek |-> jump]
          /\ IF jump
             THEN gridPrev' = gridSeek /\ gridSeek' = now
             ELSE UNCHANGED <<gridPrev, gridSeek>>
    /\ UNCHANGED <<coreVars, cellVars, now>>
    /\ UnchangedLive

\* The live check of one grid cell from the attach of its player to its
\* cleanup
NextGrid ==
    \/ LiveTick
    \/ GridAttach
    \/ GridCleanup
    \/ \E hint \in Hints, buf \in BufEnds, cur \in Curs : GridPoll(hint, buf, cur)

SpecGrid == Init /\ [][NextGrid]_vars

\* ------------------------------------------------------------------
\* Stream errors of one cell of the all-cameras grid. The grace timer is
\* kept as the time left until it fires, in ticks of 200ms, so that a cell
\* can go on receiving events for ever.
\* ------------------------------------------------------------------
ERROR_GRACE == 10             \* setTimeout(..., 2000)

ErrorTypes == {"mediaError", "networkError", "otherError"}

Cell == [errorTimer |-> errorTimer, status |-> cellStatus, recovery |-> recovery,
         recoveries |-> recoveries]

\* the fatal branch of the ERROR handler: the previous timer is cleared, a
\* recovery is attempted and a new 2s timer is set
cellOnFatal(c, type) ==
    LET recovers == type \in {"mediaError", "networkError"}
    IN [c EXCEPT !.errorTimer = ERROR_GRACE,
                 !.recovery = IF type = "mediaError" THEN "recoverMediaError"
                              ELSE IF type = "networkError" THEN "startLoad"
                              ELSE @,
                 !.recoveries = IF recovers THEN Min(@ + 1, MaxRecoveries) ELSE @]

\* the ERROR handler as it would be without `if (data && data.fatal)`
cellOnErrorAnyFatal(c, type, fatal) == cellOnFatal(c, type)

\* h.on(Hls.Events.ERROR): only a fatal error is reacted to
cellOnError(c, type, fatal) == IF fatal THEN cellOnFatal(c, type) ELSE c

\* the callback of videoEl._errorTimer
cellErrorTimer(c) == [c EXCEPT !.status = "Stream error", !.errorTimer = -1]

\* a FRAG_BUFFERED handler that leaves the pending timer alone
cellOnFragBufferedKeepTimer(c) == [c EXCEPT !.status = ""]

\* h.on(Hls.Events.FRAG_BUFFERED)
cellOnFragBuffered(c) == [c EXCEPT !.errorTimer = -1, !.status = ""]

\* 'playing', 'canplay', 'loadeddata' of the element and MANIFEST_PARSED
cellOnPlayable(c) == [c EXCEPT !.status = ""]

CommitCell(c) ==
    /\ errorTimer' = c.errorTimer
    /\ cellStatus' = c.status
    /\ recovery' = c.recovery
    /\ recoveries' = c.recoveries

CellFatal(type) ==
    /\ CommitCell(cellOnError(Cell, type, TRUE))
    /\ errAge' = IF errAge = -1 THEN 0 ELSE errAge
    /\ lastError' = "fatal"
    /\ UNCHANGED <<coreVars, liveVars, cancelled>>

CellNonFatal(type) ==
    /\ CommitCell(cellOnError(Cell, type, FALSE))
    /\ lastError' = "nonFatal"
    /\ UNCHANGED <<coreVars, liveVars, errAge, cancelled>>

\* the pending error is reported: the count of recoveries starts again
CellErrorTimer ==
    /\ errorTimer = 0
    /\ CommitCell([cellErrorTimer(Cell) EXCEPT !.recoveries = 0])
    /\ errAge' = -1
    /\ UNCHANGED <<coreVars, liveVars, cancelled, lastError>>

\* the pending error is cleared: the count of recoveries starts again
CellFragBuffered ==
    /\ CommitCell([cellOnFragBuffered(Cell) EXCEPT !.recoveries = 0])
    /\ errAge' = -1
    /\ cancelled' = (errorTimer # -1)
    /\ UNCHANGED <<coreVars, liveVars, lastError>>

CellPlayable ==
    /\ CommitCell(cellOnPlayable(Cell))
    /\ UNCHANGED <<coreVars, liveVars, errAge, cancelled, lastError>>

\* 200ms pass; a timer that is due runs first
CellTick ==
    /\ errorTimer # 0
    /\ errorTimer' = IF errorTimer = -1 THEN -1 ELSE errorTimer - 1
    /\ errAge' = IF errAge = -1 THEN -1 ELSE Min(errAge + 1, MaxErrAge)
    /\ UNCHANGED <<coreVars, liveVars, cellStatus, recovery, cancelled, recoveries, lastError>>

NextCell ==
    \/ \E type \in ErrorTypes : CellFatal(type)
    \/ \E type \in ErrorTypes : CellNonFatal(type)
    \/ CellErrorTimer
    \/ CellFragBuffered
    \/ CellPlayable
    \/ CellTick

SpecCell == Init /\ [][NextCell]_vars

\* time passes and a due timer callback runs
FairCell == SpecCell /\ WF_vars(CellTick) /\ WF_vars(CellErrorTimer)

\* ================================================================ claims
Finalized(h) == h \in 1..Len(handoffs) /\ handoffs[h].swapDone

\* a live session playing camera c into sink v
DrivenBy(c, v) ==
    \E x \in 1..Len(sess) : sess[x].cam = c /\ sess[x].sink = v /\ ~sess[x].dead

\* every handoff started so far has finalized and every continuation has run
Quiet ==
    /\ fsOverlay = "flex"
    /\ hlsLoaded
    /\ pending = <<>>
    /\ Len(handoffs) > 0
    /\ \A h \in 1..Len(handoffs) : handoffs[h].swapDone

\* C1: once the handoffs toward the focused camera have finalized, exactly one
\* sink is mounted in the focused container, it is the focused sink and it is
\* driven by a session of the camera the last handoff went to; no orphan sink
\* is left mounted.
C1_OneSinkForTarget ==
    Quiet =>
        /\ fsVideoContainer = {fsVideoEl}
        /\ DrivenBy(handoffs[Len(handoffs)].cam, fsVideoEl)

\* C2: once a later handoff has started, the finalize body of an earlier
\* handoff that had not finalized yet never runs.
C2_NoStaleFinalize ==
    [][\A h \in 1..Len(handoffs) :
          (h < Len(handoffs) /\ ~handoffs[h].swapDone) => ~handoffs'[h].swapDone]_vars

\* C3: the prewarm pool never holds more than K = 8 entries.
C3_PoolWithinCapacity == PoolSize(State) <= PREFETCH_LIMIT

\* C4: a checkout removes the entry it returns, so of the two consecutive
\* checkouts of the same camera that one handoff makes the second returns none.
C4_SecondCheckoutEmpty ==
    \A h \in 1..Len(handoffs) : handoffs[h].co1 # 0 => handoffs[h].co2 = 0

\* C5: the finalize body of one handoff runs at most once, however many of its
\* triggers (first frame, fragment buffered, hard timer) fire.
C5_FinalizeAtMostOnce == \A h \in 1..Len(handoffs) : handoffs[h].runs <= 1

\* a handoff whose finalize was called by a first frame and by the hard timer
C5_Witness ==
    \E h \in 1..Len(handoffs) :
        handoffs[h].gotFrame /\ handoffs[h].hardTimer = "fired" /\ handoffs[h].runs = 1

\* C6: every handoff that was started (its camera has a stream address)
\* eventually finalizes.
C6_EventuallyFinalized ==
    \A h \in 1..MaxHandoffs : (Len(handoffs) >= h) ~> Finalized(h)

\* C6, as the code has it: every handoff that was started eventually
\* finalizes, unless the focused view is closed first: the close button
\* reloads the page, and the handoff is gone with its timers.
C6_FinalizedUnlessClosed ==
    \A h \in 1..MaxHandoffs :
        (Len(handoffs) >= h) ~> (Finalized(h) \/ fsOverlay = "absent")

\* a handoff that no frame ever reached, finalized by its hard timer
C6_Witness ==
    \E h \in 1..Len(handoffs) :
        /\ handoffs[h].swapDone
        /\ handoffs[h].hardTimer = "fired"
        /\ ~handoffs[h].gotFrame
        /\ ~Driven(State, handoffs[h].newV)

\* C7: the session a finalize destroys is never the session driving the new
\* sink of that handoff.
C7_ReusedNeverDestroyed ==
    \A h \in 1..Len(handoffs) :
        handoffs[h].killed # 0 => handoffs[h].killed # handoffs[h].drv

\* C8: a destroyed session is never attached to a sink and never the session
\* of the focused view.
C8_DestroyedNeverUsed ==
    \A x \in 1..Len(sess) : sess[x].dead => (sess[x].sink = 0 /\ fsHlsInstance # x)

\* C9: while the focused view is closed no handoff is left with a timer or a
\* first-frame listener, so that nothing reassigns the focused sink, removes
\* a sink or destroys a session on behalf of the closed view, and the focused
\* sink stays absent until the next open.
C9_ClosedClearsHandoffs ==
    fsOverlay # "flex" =>
        /\ handoffs = <<>>
        /\ fsVideoEl = 0
        /\ fsHlsInstance = 0
        /\ fsVideoContainer = {}

\* the view was closed while a handoff had not finalized
C9_Witness ==
    /\ fsOverlay # "flex"
    /\ unloaded.handoffs > 0

\* C10: two corrective seeks of the same session are never less than 800ms
\* apart, whether the monitor ran through or was stopped and restarted by
\* play, pause, popup close and popup reopen in between.
C10_SeeksSpaced ==
    /\ prevSeek # -1 => lastSeek - prevSeek >= MIN_GAP_MS
    /\ gridPrev # -1 => gridSeek - gridPrev >= MIN_GAP_MS

\* a step in which the popup monitor polls a playing preview / liveCheck runs
MainPollStep ==
    /\ liveSyncInterval \in 0..now
    /\ liveSyncInterval' > now
    /\ events' = events
    /\ ~paused

GridPollStep == gridInterval \in 0..now /\ gridInterval' > now

\* the position a seek of liveCheck goes to (-1: none)
GridSeekTarget(hint, buf) ==
    IF GridLivePos(hint, buf) = -1 THEN -1 ELSE Max(0, GridLivePos(hint, buf) - EDGE_MARGIN)

\* the stated condition of a correction, on the position the seek goes to
SeekDue(target, cur, since, inFlight) ==
    /\ target # -1
    /\ target - cur > LAG_LIMIT
    /\ since >= MIN_GAP_MS
    /\ ~inFlight

\* C11: a poll of a playing sink jumps exactly when the position the seek goes
\* to is more than 1.5s ahead of the current position, at least 800ms have
\* passed since the last correction and no seek is in flight.
C11_SeekExactlyWhenDue ==
    [][/\ MainPollStep =>
            (lastSeek' # lastSeek <=>
                SeekDue(LiveTarget(poll'.hint, poll'.buf), poll'.cur, now - lastSeek, isSeeking))
       /\ GridPollStep =>
            (gridSeek' # gridSeek <=>
                SeekDue(GridSeekTarget(poll'.hint, poll'.buf), poll'.cur,
                        IF gridSeek = -1 THEN MIN_GAP_MS ELSE now - gridSeek, FALSE))]_vars

\* the ids prewarmNearby wants warm around the focused camera
NearbySet(centerId) == {NearbyList(centerId)[i] : i \in 1..Len(NearbyList(centerId))}

\* C12: while a camera is focused the pool holds no session whose id is
\* outside the neighbour set of that camera: reconciling on a focus change has
\* destroyed the others.
C12_PoolReconciled ==
    fsOverlay = "flex" =>
        \A id \in CamIds : prewarmPool[id].has => id \in NearbySet(currentFsCameraId)

\* C13: with the focused view on an id of the navigation order, next()
\* followed by prev() returns the focused id to that id.
C13_NextPrevRoundTrip ==
    (fsOverlay = "flex" /\ currentFsCameraId \in OrderedSet) =>
        navigateFullscreen(Settle(navigateFullscreen(State, 1)), -1).currentFsCameraId
            = currentFsCameraId

\* successor of an id of the navigation order
Succ(id) == orderedCameraIds[(IndexOf(id) % Len(orderedCameraIds)) + 1]

\* C13, as the code has it: the round trip returns to the id when the
\* directory holds the successor (navigateFullscreen does nothing for an id
\* without a cameraById record).
C13_RoundTripWhenSuccessorKnown ==
    (fsOverlay = "flex" /\ currentFsCameraId \in OrderedSet
        /\ Succ(currentFsCameraId) \in known) =>
        navigateFullscreen(Settle(navigateFullscreen(State, 1)), -1).currentFsCameraId
            = currentFsCameraId

\* back on the last id of the order after next() wrapped to the first id and
\* prev() wrapped back
C13_Witness ==
    /\ fsOverlay = "flex"
    /\ currentFsCameraId = orderedCameraIds[Len(orderedCameraIds)]
    /\ Len(handoffs) >= 2
    /\ handoffs[Len(handoffs) - 1].cam = orderedCameraIds[1]
    /\ handoffs[Len(handoffs)].cam = orderedCameraIds[Len(orderedCameraIds)]

\* C14: with the focused view on an id outside the navigation order the prev
\* and next buttons are hidden, so that next() and prev() cannot move the
\* focus, and neighbour warming asks for no id of the order.
C14_OutsideOrderNoTraversal ==
    (fsOverlay = "flex" /\ currentFsCameraId # 0 /\ currentFsCameraId \notin OrderedSet) =>
        /\ ~navShown
        /\ NearbySet(currentFsCameraId) \cap OrderedSet = {}

\* a camera switch has moved the focus to 5001, which is outside the order,
\* and its warming has made the pool entry of 5001
C14_Witness ==
    /\ fsOverlay = "flex"
    /\ currentFsCameraId = 5001
    /\ Len(handoffs) > 0
    /\ handoffs[Len(handoffs)].cam = 5001
    /\ ~navShown

\* C19: while the focused view stays open the focused id changes only in a
\* step that starts a handoff; a switch to a camera without a stream address
\* changes nothing.
C19_NoAddressNoChange ==
    [][(fsOverlay = "flex" /\ fsOverlay' = "flex" /\ Len(handoffs') = Len(handoffs)) =>
          /\ currentFsCameraId' = currentFsCameraId
          /\ fsVideoEl' = fsVideoEl \/ \E h \in 1..Len(handoffs) : fsVideoEl' = handoffs[h].newV
          /\ fsVideoContainer' \subseteq fsVideoContainer]_vars

\* the play listener that starts the monitor is on v: the continuation of
\* initMedia adds it to the preview element of its marker, no other code
\* adds one
LiveSyncBound(v) == v \in syncListeners

\* C15: every sink that a live session is attached to and that has started
\* playing carries a live-sync monitor, the sinks made by
\* switchFullscreenCamera included
C15_MonitorOnEverySink ==
    \A h \in 1..Len(handoffs) :
        (handoffs[h].gotFrame /\ Driven(State, handoffs[h].newV))
            => LiveSyncBound(handoffs[h].newV)


\* C16: a fatal error that no buffered fragment has cleared for the length of
\* the grace window is eventually reported as "Stream error" (or is cleared
\* by a fragment after all), also when fatal errors keep arriving
C16_PersistentErrorSurfaces ==
    (errAge >= ERROR_GRACE) ~> (cellStatus = "Stream error" \/ errAge = -1)

\* C17: a fragment buffered within the grace window of a fatal error cancels
\* the pending timer and clears the status, and the status only turns to
\* "Stream error" for an error that stayed uncleared for the whole window
C17_RecoveredNeverSurfaces ==
    [][ /\ (errAge # -1 /\ errAge < ERROR_GRACE /\ errAge' = -1)
            => (errorTimer' = -1 /\ cellStatus' = "")
        /\ (cellStatus' = "Stream error" /\ cellStatus # "Stream error")
            => (errAge # -1 /\ errAge >= ERROR_GRACE) ]_vars

C17_Witness == cancelled /\ errorTimer = -1 /\ cellStatus = "" /\ recovery = "startLoad"


\* the text the focused view shows for a handoff: the spinner is appended
\* when the handoff starts and removed by finalizeSwap, which writes nothing
\* else whatever its argument
fsStatusText(r) == IF r.swapDone THEN "" ELSE "Loading..."

\* C18: when the hard-finalize timer finalizes a handoff whose new sink never
\* reported a frame, the handoff is finalized and the focused view reports
\* "Stream error"
C18_FailedHandoffReported ==
    [][\A h \in 1..Len(handoffs) :
          (/\ h <= Len(handoffs')
           /\ handoffs[h].hardTimer = "armed"
           /\ handoffs'[h].hardTimer = "fired"
           /\ ~handoffs[h].swapDone
           /\ ~handoffs[h].gotFrame)
              => (handoffs'[h].swapDone /\ fsStatusText(handoffs'[h]) = "Stream error")]_vars


\* C20: no pool entry streams an address other than the one the directory
\* now holds for its camera, also after the directory was supplied again
C20_PoolUsesCurrentAddress ==
    \A id \in CamIds :
        (prewarmPool[id].has /\ prewarmPool[id].hls # 0)
            => sess[prewarmPool[id].hls].url = url[id]


\* the handoff found neither marker._hlsInstance nor a pool instance for its camera
NothingToReuse(h) == handoffs[h].drv = 0

\* C21: the newest handoff, when it found no session to reuse and hls.js is
\* loaded, has a fresh session of its camera attached to its new sink, also
\* when the session of the previous camera is still the focused session
C21_FreshSessionWhenNothingToReuse ==
    \A h \in 1..Len(handoffs) :
        (/\ h = Len(handoffs)
         /\ fsOverlay = "flex"
         /\ NothingToReuse(h)
         /\ handoffs[h].attachTimeout = "armed"
         /\ ~handoffs[h].swapDone
         /\ hlsLoaded /\ pending = <<>>)
            => DrivenBy(handoffs[h].cam, handoffs[h].newV)


\* C22: a handoff to a camera that has both a preview session on its marker
\* and a warmed pool instance records the preview session as the focused
\* session and does not check the pool instance out
C22_PreviewBeforePool ==
    \A c \in CamIds :
        (/\ fsOverlay = "flex"
         /\ c \in known /\ url[c] # 0
         /\ markerHls[c] # 0
         /\ prewarmPool[c].has /\ prewarmPool[c].hls # 0)
            => LET t == switchFullscreenCamera(State, c)
               IN /\ t.fsHlsInstance = markerHls[c]
                  /\ t.handoffs[Len(t.handoffs)].co2 = 0


\* C23: usePrewarm(id) returns an instance exactly when the pool has an entry
\* for id, whether the entry's instance has been created yet or not
C23_CheckoutWheneverEntry ==
    \A id \in CamIds : (usePrewarm(State, id)[1] # 0) <=> prewarmPool[id].has


\* C24: while the focused view is open, the sink that was visible when a
\* handoff started stays mounted in the container until that handoff finalizes
C24_OldSinkUntilFinalize ==
    \A h \in 1..Len(handoffs) :
        (fsOverlay = "flex" /\ ~handoffs[h].swapDone /\ handoffs[h].oldFsVideo # 0)
            => handoffs[h].oldFsVideo \in fsVideoContainer


\* C25: the recovery of the 2.2s attachTimeout callback (detach and re-attach
\* of the focused instance, or the creation of a fresh instance with its
\* FRAG_BUFFERED listener) never acts for a handoff whose new sink has
\* reported playing or loadeddata
C25_NoEscalationAfterFirstFrame ==
    [][\A h \in 1..Len(handoffs) :
          (/\ h <= Len(handoffs')
           /\ \/ (handoffs'[h].esc /\ ~handoffs[h].esc)
              \/ (handoffs'[h].frag # 0 /\ handoffs[h].frag = 0))
              => ~handoffs[h].gotFrame]_vars


\* the ids of a request that have no pool entry and a known stream address
Warmable(s, ids) == {id \in ids : ~s.prewarmPool[id].has /\ id \in s.known /\ s.url[id] # 0}

\* from pool p to pool q: one entry with its own new hidden sink for each id
\* of new, every other entry untouched, n sinks created
WarmedExactly(s, t, new) ==
    /\ \A id \in new : /\ t.prewarmPool[id].has
                       /\ t.prewarmPool[id].video > s.nSink
                       /\ \A o \in new \ {id} : t.prewarmPool[o].video # t.prewarmPool[id].video
    /\ \A id \in CamIds \ new : t.prewarmPool[id] = s.prewarmPool[id]
    /\ t.nSink = s.nSink + Cardinality(new)

\* C26: prewarmNearby and startPersistentPrewarm make exactly one entry, with
\* its own new hidden sink, for each requested id that has no entry and has a
\* stream address, touch no other entry, and a second call with the same ids
\* leaves the pool as the first call left it
C26_WarmExactlyMissing ==
    /\ \A c \in CamIds :
          LET t == prewarmNearby(State, c)
          IN /\ WarmedExactly(State, t, Warmable(State, NearbySet(c)))
             /\ prewarmNearby(Settle(t), c).prewarmPool = Settle(t).prewarmPool
    /\ LET t == startPersistentPrewarm(State, orderedCameraIds)
       IN /\ WarmedExactly(State, t, Warmable(State, OrderedSet))
          /\ startPersistentPrewarm(Settle(t), orderedCameraIds).prewarmPool
                = Settle(t).prewarmPool

\* C27: a poll of the popup's monitor that issues a corrective seek does so
\* only while the element is not paused, a target was computable, and the
\* 600ms cooldown of the previous corrective seek is over
C27_NoSeekWhenBlocked ==
    [][(poll'.seek /\ lastSeek' # lastSeek)
          => /\ ~paused
             /\ ~isSeeking
             /\ poll'.target # -1
             /\ (lastSeek = 0 \/ now >= lastSeek + COOLDOWN_MS)]_vars

\* a poll found the element paused while it lagged, and did not seek
C27_Witness ==
    /\ poll.by = "live" /\ ~poll.seek
    /\ paused
    /\ poll.target # -1 /\ poll.target - poll.cur > LAG_LIMIT
    /\ liveSyncInterval # -1


\* C28: the position a corrective seek of either monitor goes to is the
\* live-sync hint when there is one, and otherwise the end of the buffered
\* range minus the 0.5s margin, not below 0
C28_TargetPrefersHint ==
    poll.seek => poll.target = LiveTarget(poll.hint, poll.buf)


\* C29: between two reports or clearings of a stream error the ERROR handler
\* asks hls.js for at most one recovery (recoverMediaError or startLoad)
C29_OneRecoveryAttempt == recoveries <= 1

\* C30: an ERROR event that is not fatal leaves the error timer, the status
\* and the recovery calls as they were
C30_NonFatalChangesNothing ==
    [][(lastError' = "nonFatal" /\ lastError # "nonFatal")
          => /\ errorTimer' = errorTimer
             /\ cellStatus' = cellStatus
             /\ recovery' = recovery
             /\ recoveries' = recoveries]_vars

\* the last ERROR event was not fatal and arrived while the timer of an
\* earlier fatal error was pending, which is still pending
C30_Witness ==
    /\ lastError = "nonFatal"
    /\ errorTimer = ERROR_GRACE
    /\ recoveries = 1
    /\ cellStatus = "Loading stream..."


\* C31: no session was ever attached to a sink while it was still attached
\* to another one: handoff reuse, pool checkout and the escalation all detach
\* the session first
C31_DetachBeforeAttach == \A x \in 1..Len(sess) : ~sess[x].multi

\* a handoff has moved a session that was created for another sink (preview
\* or pool) onto its new sink
C31_Witness ==
    \E h \in 1..Len(handoffs) :
        /\ handoffs[h].drv # 0
        /\ sess[handoffs[h].drv].sink = handoffs[h].newV
        /\ handoffs[h].attachTimeout = "fired"


\* the ids at distance at most 2 from position i (1-based) of the order
Within2(i) ==
    {orderedCameraIds[((i - 1 + d + Len(orderedCameraIds)) % Len(orderedCameraIds)) + 1] :
        d \in {-2, -1, 0, 1, 2}}

\* C32: for the camera at any position i of the order, prewarmNearby asks for
\* exactly the ids at positions i, i+1, i-1, i+2, i-2 modulo the length, each
\* once, so for at most 5 ids
C32_NearbyIsWithinTwo ==
    /\ \A i \in 1..Len(orderedCameraIds) :
          LET list == NearbyList(orderedCameraIds[i])
          IN /\ {list[j] : j \in 1..Len(list)} = Within2(i)
             /\ \A j, k \in 1..Len(list) : list[j] = list[k] => j = k
             /\ Len(list) <= 5
    /\ (fsOverlay = "flex" /\ currentFsCameraId \in OrderedSet)
          => NearbySet(currentFsCameraId) = Within2(IndexOf(currentFsCameraId))

\* openCameraFullscreen has warmed around a camera of the order whose
\* neighbours wrap around the end of the list
C32_Witness ==
    /\ fsOverlay = "flex"
    /\ currentFsCameraId = orderedCameraIds[1]
    /\ \A id \in Within2(1) : (id \in known /\ url[id] # 0) => prewarmPool[id].has
    /\ \E id \in Within2(1) \ {orderedCameraIds[1]} : prewarmPool[id].has
    /\ orderedCameraIds[Len(orderedCameraIds)] \in known


\* the video elements of the focused view: fsVideoEl and the new elements of
\* the handoffs
FsSinks == ({fsVideoEl} \cup {handoffs[h].newV : h \in 1..Len(handoffs)}) \ {0}

\* C33: no video element of the focused view has two live instances attached
\* to it at once
C33_OneSessionPerSink ==
    \A x, y \in 1..Len(sess) :
        (/\ x # y
         /\ ~sess[x].dead /\ ~sess[y].dead
         /\ sess[x].sink \in FsSinks)
            => sess[x].sink # sess[y].sink


\* C34: when the 2.2s timer of a handoff fires after a later handoff has
\* started, it leaves every session where it is: in particular it does not
\* move the instance that drives the later handoff's sink
C34_StaleEscalationHandsOff ==
    [][\A h \in 1..Len(handoffs) :
          (/\ h < Len(handoffs)
           /\ Len(handoffs') = Len(handoffs)
           /\ handoffs[h].attachTimeout = "armed"
           /\ handoffs'[h].attachTimeout = "fired")
              => \A x \in 1..Len(sess) : sess'[x].sink = sess[x].sink]_vars


\* C35: when initMedia of a marker replaces the instance of its preview by a
\* new one, the instance it had kept is destroyed, so that the preview never
\* owns two live instances
C35_OnePreviewSession ==
    [][\A c \in CamIds :
          (/\ gen'[c] = gen[c]
           /\ hlsInstance[c] # 0
           /\ hlsInstance'[c] # 0
           /\ hlsInstance'[c] # hlsInstance[c])
              => sess'[hlsInstance[c]].dead]_vars


\* C36: while the preview of a camera is closed (popupclose has reset
\* mediaInitialized and no popupopen has followed), no live instance is
\* attached to its preview element
C36_ClosedPreviewSilent ==
    \A c \in CamIds :
        (c \in known /\ videoEl[c] # 0 /\ ~mediaInitialized[c])
            => ~Driven(State, videoEl[c])


\* C37: without handoffs, every instance that a continuation of
\* openCameraFullscreen has made and that has not been destroyed is the
\* focused instance, attached to the focused sink and playing the focused
\* camera: none is left alive and untracked, none is on the sink of another
\* camera's view
C37_OpenedSessionTracked ==
    \A x \in 1..Len(sess) :
        (sess[x].by = "openFs" /\ sess[x].made /\ ~sess[x].dead)
            => /\ fsHlsInstance = x
               /\ sess[x].sink = fsVideoEl
               /\ sess[x].cam = currentFsCameraId

\* the view was closed while the continuation of its open was still waiting
\* for the script, and the view opened after that has its own instance
C37_Witness ==
    /\ unloaded.opens > 0
    /\ fsOverlay = "flex"
    /\ fsHlsInstance # 0
    /\ sess[fsHlsInstance].by = "openFs"
    /\ sess[fsHlsInstance].sink = fsVideoEl


\* C38: at most one interval set by startLiveSync is active, and it is the
\* one liveSyncInterval refers to
C38_OneLiveSyncInterval ==
    /\ liveTimers <= 1
    /\ (liveTimers = 1) = (liveSyncInterval # -1)

\* the monitor runs after a play event that reached several play listeners
C38_Witness ==
    /\ listeners = MaxListeners
    /\ listeners > 1
    /\ popupShown
    /\ events = <<>>
    /\ liveSyncInterval # -1
    /\ liveTimers = 1

====
